---- MODULE Spec2Model ----
(***************************************************************************)
(* The ImageProcessor form component: a file picker with an asynchronous   *)
(* preview, a prompt, a webhook URL, and handleSubmit, which posts the     *)
(* image and the prompt to the webhook and shows the image URL that comes  *)
(* back.  The repository holds three revisions of the component; the       *)
(* variable "variant" says which one a behaviour runs.                     *)
(*                                                                         *)
(* Text is a sequence of one-character strings, so that template literals, *)
(* String.includes and number formatting are computed, not assumed.        *)
(* A handler runs to completion between two awaits: each action below is   *)
(* one such synchronous stretch, with all the state writes it makes.       *)
(***************************************************************************)
EXTENDS Integers, Sequences, FiniteSets, TLC

\* ---------------------------------------------------------------- bounds
\* handleSubmit invocations per behaviour
MaxSubmits == 2
\* FileReader reads pending at one time
MaxReads == 2
\* setTimeout callbacks pending at one time
MaxTimers == 1

\* ------------------------------------------------------ text literals
\* 'Failed to process image: ' (catch block)
FailedPrefix ==
    <<
    "F","a","i","l","e","d"," ","t","o"," ","p","r","o","c","e","s","s"," ","i","m","a","g","e",":",
    " " >>
\* 'Unknown error' (catch block, thrown value is not an Error)
UnknownError ==
    <<
    "U","n","k","n","o","w","n"," ","e","r","r","o","r" >>
\* 'HTTP error: ' (ImageProcessor.tsx)
HttpErrorColon ==
    <<
    "H","T","T","P"," ","e","r","r","o","r",":"," " >>
\* 'HTTP error ' (part_000)
HttpErrorSpace ==
    <<
    "H","T","T","P"," ","e","r","r","o","r"," " >>
\* ': ' (part_000)
ColonSpace ==
    <<
    ":"," " >>
\* 'Response did not contain an image URL'
NoImageUrlText ==
    <<
    "R","e","s","p","o","n","s","e"," ","d","i","d"," ","n","o","t"," ","c","o","n","t","a","i","n",
    " ","a","n"," ","i","m","a","g","e"," ","U","R","L" >>
\* 'Connection to ' (loopback branch)
ConnectionTo ==
    <<
    "C","o","n","n","e","c","t","i","o","n"," ","t","o"," " >>
\* the rest of the loopback message, after ${webhookUrl}
LocalhostAdvice ==
    <<
    " ","f","a","i","l","e","d","."," ","Y","o","u","r"," ","b","r","o","w","s","e","r"," ","c","a",
    "n","n","o","t"," ","c","o","n","n","e","c","t"," ","t","o"," ","l","o","c","a","l","h","o","s",
    "t"," ","f","r","o","m"," ","a"," ","d","e","p","l","o","y","e","d"," ","a","p","p","l","i","c",
    "a","t","i","o","n"," ","d","u","e"," ","t","o"," ","C","O","R","S"," ","r","e","s","t","r","i",
    "c","t","i","o","n","s","."," ","\n"," "," "," "," "," "," "," "," ","P","l","e","a","s","e",
    " ","e","i","t","h","e","r",":","\n"," "," "," "," "," "," "," "," ","1","."," ","D","e","p",
    "l","o","y"," ","y","o","u","r"," ","n","8","n"," ","i","n","s","t","a","n","c","e"," ","a","n",
    "d"," ","u","s","e"," ","t","h","a","t"," ","U","R","L"," ","i","n","s","t","e","a","d","\n",
    " "," "," "," "," "," "," "," ","2","."," ","U","s","e"," ","a"," ","C","O","R","S"," ","p","r",
    "o","x","y"," ","s","e","r","v","i","c","e","\n"," "," "," "," "," "," "," "," ","3","."," ",
    "T","e","s","t"," ","t","h","i","s"," ","a","p","p"," ","l","o","c","a","l","l","y"," ","o","n",
    " ","y","o","u","r"," ","m","a","c","h","i","n","e","\n"," "," "," "," "," "," "," "," ","\n",
    " "," "," "," "," "," "," "," ","I","m","p","o","r","t","a","n","t",":"," ","M","a","k","e"," ",
    "s","u","r","e"," ","t","o"," ","e","n","a","b","l","e"," ","C","O","R","S"," ","o","n"," ","y",
    "o","u","r"," ","n","8","n"," ","W","e","b","h","o","o","k"," ","n","o","d","e","!" >>
\* 'localhost'
LocalhostWord ==
    <<
    "l","o","c","a","l","h","o","s","t" >>
\* '127.0.0.1'
LoopbackWord ==
    <<
    "1","2","7",".","0",".","0",".","1" >>

\* ------------------------------------------- inputs the user can type
\* a remote webhook
UrlRemote ==
    <<
    "h","t","t","p","s",":","/","/","e","x","a","m","p","l","e",".","c","o","m","/","h","o","o","k" >>
\* a webhook on localhost
UrlLocalhost ==
    <<
    "h","t","t","p",":","/","/","l","o","c","a","l","h","o","s","t",":","5","6","7","8","/","h","o",
    "o","k" >>
\* a webhook on 127.0.0.1
UrlLoopback ==
    <<
    "h","t","t","p",":","/","/","1","2","7",".","0",".","0",".","1",":","5","6","7","8","/","h","o",
    "o","k" >>
\* a prompt
PromptEnhance ==
    <<
    "e","n","h","a","n","c","e" >>

\* ------------------------------------- what the webhook can answer
\* a JSON object with image_url
BodyWithUrl ==
    <<
    "{","\"","i","m","a","g","e","_","u","r","l","\"",":","\"","h","t","t","p","s",":","/","/","c",
    "d","n",".","e","x","a","m","p","l","e",".","c","o","m","/","o","u","t",".","p","n","g","\"","}" >>
\* a JSON object whose image_url is the empty string
BodyEmptyUrl ==
    <<
    "{","\"","i","m","a","g","e","_","u","r","l","\"",":","\"","\"","}" >>
\* a JSON object without image_url
BodyEmptyObject ==
    <<
    "{","}" >>
\* the JSON value null
BodyNull ==
    <<
    "n","u","l","l" >>
\* a body that is not JSON
BodyText ==
    <<
    "s","e","r","v","e","r"," ","e","x","p","l","o","d","e","d" >>
\* the text before the value of image_url
JsonUrlOpen ==
    <<
    "{","\"","i","m","a","g","e","_","u","r","l","\"",":","\"" >>
\* the text after the value of image_url
JsonUrlClose ==
    <<
    "\"","}" >>
\* message of the TypeError of a failed fetch or body read
FailedToFetch ==
    <<
    "F","a","i","l","e","d"," ","t","o"," ","f","e","t","c","h" >>
\* message of the SyntaxError for an empty body
UnexpectedEnd ==
    <<
    "U","n","e","x","p","e","c","t","e","d"," ","e","n","d"," ","o","f"," ","J","S","O","N"," ","i",
    "n","p","u","t" >>
\* message of the SyntaxError for other text, first part
UnexpectedToken ==
    <<
    "U","n","e","x","p","e","c","t","e","d"," ","t","o","k","e","n"," " >>
\* message of the SyntaxError for other text, last part
InJsonAtZero ==
    <<
    " ","i","n"," ","J","S","O","N"," ","a","t"," ","p","o","s","i","t","i","o","n"," ","0" >>

\* --------------------------------------------------- data URLs
\* 'data:'
DataScheme ==
    <<
    "d","a","t","a",":" >>
\* ';base64,'
Base64Marker ==
    <<
    ";","b","a","s","e","6","4","," >>
\* a MIME type
MimePng ==
    <<
    "i","m","a","g","e","/","p","n","g" >>
\* a MIME type
MimeJpeg ==
    <<
    "i","m","a","g","e","/","j","p","e","g" >>
\* the base64 alphabet
Base64Alphabet ==
    <<
    "A","B","C","D","E","F","G","H","I","J","K","L","M","N","O","P","Q","R","S","T","U","V","W","X",
    "Y","Z","a","b","c","d","e","f","g","h","i","j","k","l","m","n","o","p","q","r","s","t","u","v",
    "w","x","y","z","0","1","2","3","4","5","6","7","8","9","+","/" >>
\* the decimal digits
DecimalDigits ==
    <<
    "0","1","2","3","4","5","6","7","8","9" >>

\* ----------------------------------------------------- pure functions
\* String.prototype.includes
Includes(s, t) ==
    \E i \in 0..(Len(s) - Len(t)) : SubSeq(s, i + 1, i + Len(t)) = t

\* template-literal formatting of a non-negative number
RECURSIVE ToDecimal(_)
ToDecimal(n) ==
    IF n < 10 THEN << DecimalDigits[n + 1] >>
    ELSE ToDecimal(n \div 10) \o << DecimalDigits[(n % 10) + 1] >>

\* base64 of a byte sequence
RECURSIVE Base64(_)
Base64(b) ==
    IF Len(b) = 0 THEN << >>
    ELSE IF Len(b) = 1 THEN
        << Base64Alphabet[(b[1] \div 4) + 1],
           Base64Alphabet[((b[1] % 4) * 16) + 1], "=", "=" >>
    ELSE IF Len(b) = 2 THEN
        << Base64Alphabet[(b[1] \div 4) + 1],
           Base64Alphabet[((b[1] % 4) * 16) + (b[2] \div 16) + 1],
           Base64Alphabet[((b[2] % 16) * 4) + 1], "=" >>
    ELSE
        << Base64Alphabet[(b[1] \div 4) + 1],
           Base64Alphabet[((b[1] % 4) * 16) + (b[2] \div 16) + 1],
           Base64Alphabet[((b[2] % 16) * 4) + (b[3] \div 64) + 1],
           Base64Alphabet[(b[3] % 64) + 1] >> \o Base64(SubSeq(b, 4, Len(b)))

\* the files the picker can return (e.target.files[0]); 0 stands for null
Files ==
    << [type |-> MimePng, bytes |-> << 137, 80 >>],
       [type |-> MimeJpeg, bytes |-> << 255, 216, 255 >>] >>

NoFile == 0

FileIds == 1..Len(Files)

\* reader.result of FileReader.readAsDataURL
DataURL(f) ==
    DataScheme \o Files[f].type \o Base64Marker \o Base64(Files[f].bytes)

\* useState<string | null>: null is the empty tuple, a string s is << s >>
Null == << >>

Str(s) == << s >>

\* the three revisions of the component
Variants == { "ImageProcessor", "part_000", "part_001" }

\* Response.ok
ResponseOk(status) == status \in 200..299

\* JSON.parse, for the JSON texts of Bodies: null, {} and {"image_url":"..."}
\* whose value has no quote and no backslash; any other text is a SyntaxError
ParseJson(b) ==
    IF b = BodyNull
    THEN [ok |-> TRUE, isObject |-> FALSE, hasUrl |-> FALSE, image_url |-> << >>]
    ELSE IF b = BodyEmptyObject
    THEN [ok |-> TRUE, isObject |-> TRUE, hasUrl |-> FALSE, image_url |-> << >>]
    ELSE IF /\ Len(b) >= Len(JsonUrlOpen) + Len(JsonUrlClose)
            /\ SubSeq(b, 1, Len(JsonUrlOpen)) = JsonUrlOpen
            /\ SubSeq(b, Len(b) - Len(JsonUrlClose) + 1, Len(b)) = JsonUrlClose
            /\ \A i \in (Len(JsonUrlOpen) + 1)..(Len(b) - Len(JsonUrlClose)) :
                   b[i] \notin { "\"", "\\" }
    THEN [ok |-> TRUE, isObject |-> TRUE, hasUrl |-> TRUE,
          image_url |-> SubSeq(b, Len(JsonUrlOpen) + 1, Len(b) - Len(JsonUrlClose))]
    ELSE [ok |-> FALSE, isObject |-> FALSE, hasUrl |-> FALSE, image_url |-> << >>]

\* message of the SyntaxError that response.json() rejects with
SyntaxErrorMessage(b) ==
    IF b = << >> THEN UnexpectedEnd
    ELSE UnexpectedToken \o << b[1] >> \o InJsonAtZero

\* a thrown value: an Error with a message, or something that is not an Error
ErrorOf(msg) == [isError |-> TRUE, message |-> msg]

\* what fetch, response.json() and response.text() reject with
TransportErrors == { ErrorOf(FailedToFetch) }

\* the values the user can give the inputs
Prompts == { << >>, PromptEnhance }

Urls == { << >>, UrlRemote, UrlLocalhost, UrlLoopback }

\* the responses a webhook can give
Statuses == { 200, 500 }

Bodies ==
    { BodyWithUrl, BodyEmptyUrl, BodyEmptyObject, BodyNull, BodyText }

Responses == [status : Statuses, body : Bodies]

NoResponse == [status |-> 0, body |-> << >>]

NoThrown == [isError |-> FALSE, message |-> << >>]

\* the kinds of notification: toast.error, toast.success, toast.info
NoToast == "none"

\* ------------------------------------------------ code shared by handleSubmit
\* the precondition without its last operand
MissingInputNoUrl(img, p, u) == img = NoFile \/ p = << >>

\* !selectedImage || !prompt || !webhookUrl
MissingInput(img, p, u) == img = NoFile \/ p = << >> \/ u = << >>

\* webhookUrl.includes('localhost') || webhookUrl.includes('127.0.0.1')
IsLocalhost(u) == Includes(u, LocalhostWord) \/ Includes(u, LoopbackWord)

\* `Connection to ${webhookUrl} failed. ...`
LocalhostMessage(u) == ConnectionTo \o u \o LocalhostAdvice

\* new Error(`HTTP error: ${response.status}`)
HttpError(status) == ErrorOf(HttpErrorColon \o ToDecimal(status))

\* new Error(`HTTP error ${response.status}: ${errorText}`)
HttpErrorWithText(status, errorText) ==
    ErrorOf(HttpErrorSpace \o ToDecimal(status) \o ColonSpace \o errorText)

\* new Error("Response did not contain an image URL")
NoImageUrlError == ErrorOf(NoImageUrlText)

\* the test reading a field the response does not have
HasImageUrlWrongField(data) == FALSE

\* data && data.image_url
HasImageUrl(data) == data.isObject /\ data.hasUrl /\ data.image_url /= << >>

\* `Failed to process image: ${error instanceof Error ? error.message : 'Unknown error'}`
CatchMessage(thrown) ==
    FailedPrefix \o (IF thrown.isError THEN thrown.message ELSE UnknownError)

\* the handler without setError(null)
KeptError(e) == e

\* setError(null): the value written
ClearedError(e) == Null

\* the handler without its finally block
FinallySkipped(loading) == loading

\* finally { setIsLoading(false) }: the value of isLoading after the block,
\* given its value before
Finally(loading) == FALSE

\* the button without its disabled attribute
SubmitAlwaysEnabled(loading) == TRUE

\* <Button type="submit" disabled={isLoading}>
SubmitEnabled(loading) == ~loading

\* --------------------------------------------------------------- state
VARIABLES
    variant,        \* which revision of the component runs
    selectedImage,  \* useState<File | null>: NoFile or a file id
    imagePreview,   \* useState<string>
    prompt,         \* useState("")
    webhookUrl,     \* useState("")
    responseImage,  \* useState<string>
    isLoading,      \* useState(false)
    error,          \* useState<string | null>
    reads,          \* FileReader reads in progress: file id -> how many
    inflight,       \* handleSubmit invocations suspended at an await
    timers,         \* pending setTimeout callbacks: whose they are and the
                    \* imagePreview each captured
    calls,          \* number of handleSubmit invocations so far
    event           \* what handleSubmit did in the last step, if it ran in it

vars ==
    << variant, selectedImage, imagePreview, prompt, webhookUrl, responseImage,
       isLoading, error, reads, inflight, timers, calls, event >>

inputs == << selectedImage, imagePreview, prompt, webhookUrl, reads >>

\* a request whose form data lacks the prompt
RequestWithoutPrompt(u, img, p) ==
    [method |-> "POST", url |-> u, image |-> img, prompt |-> << >>]

\* fetch(webhookUrl, { method: 'POST', body: formData }) with
\* formData = { image: selectedImage, prompt: prompt }
Request(u, img, p) == [method |-> "POST", url |-> u, image |-> img, prompt |-> p]

NoRequest == [method |-> "", url |-> << >>, image |-> NoFile, prompt |-> << >>]

\* an invocation of handleSubmit: the imagePreview it closed over, the request
\* it issued, the await it is suspended at, its local variable response, and
\* whether an error and a result were shown when it was invoked
NewInvocation ==
    [id |-> calls + 1, preview |-> imagePreview, request |-> NoRequest,
     phase |-> "fetch", resp |-> NoResponse,
     hadError |-> error /= Null, hadResult |-> responseImage /= << >>]

\* a step of handleSubmit, as seen from outside:
\*   kind     "rejected" (precondition failed), "started" (suspended at
\*            fetch) or "finished" (the invocation returned); "timer" when
\*            the step was the setTimeout callback of invocation id
\*   got      what fetch gave it: "none", "rejected" or "response"
\*   resp     the response, when got = "response"
\*   body     whether its body was read: "unread", "read" or "failed"
\*   thrown   what fetch or the body read rejected with, or NoThrown
\*   toast    kind of the notification shown in the step
\*   wrote    whether the step called setResponseImage
\*   request  the request issued in the step, or NoRequest
\*   image    the file in the request the invocation had issued before the
\*            step, or NoFile
\*   hadError, hadResult: whether an error and a result were shown when the
\*            invocation started
\*   loadingBefore, errorBefore, responseBefore: isLoading, error and
\*            responseImage before the step
Event(inv, kind, got, resp, body, thrown, t, wrote, req) ==
    [id |-> inv.id, kind |-> kind, got |-> got, resp |-> resp, body |-> body,
     thrown |-> thrown, toast |-> t, wrote |-> wrote, request |-> req,
     image |-> inv.request.image, hadError |-> inv.hadError, hadResult |-> inv.hadResult,
     loadingBefore |-> isLoading, errorBefore |-> error,
     responseBefore |-> responseImage]

NoEvent ==
    [id |-> 0, kind |-> "none", got |-> "none", resp |-> NoResponse,
     body |-> "unread", thrown |-> NoThrown, toast |-> NoToast,
     wrote |-> FALSE, request |-> NoRequest, image |-> NoFile,
     hadError |-> FALSE, hadResult |-> FALSE, loadingBefore |-> FALSE, errorBefore |-> Null,
     responseBefore |-> << >>]

Init ==
    /\ variant \in Variants
    /\ selectedImage = NoFile
    /\ imagePreview = << >>
    /\ prompt = << >>
    /\ webhookUrl = << >>
    /\ responseImage = << >>
    /\ isLoading = FALSE
    /\ error = Null
    /\ reads = [f \in FileIds |-> 0]
    /\ inflight = {}
    /\ timers = << >>
    /\ calls = 0
    /\ event = NoEvent

\* ------------------------------------------------------- the form inputs
RECURSIVE SumUpTo(_, _)
SumUpTo(r, n) == IF n = 0 THEN 0 ELSE r[n] + SumUpTo(r, n - 1)

PendingReads == SumUpTo(reads, Len(Files))

\* the file picker returns file f: setSelectedImage and reader.readAsDataURL
handleImageChange(f) ==
    /\ PendingReads < MaxReads
    /\ selectedImage' = f
    /\ reads' = [reads EXCEPT ![f] = @ + 1]
    /\ event' = NoEvent
    /\ UNCHANGED << variant, imagePreview, prompt, webhookUrl, responseImage,
                    isLoading, error, inflight, timers, calls >>

\* reader.onloadend: the read of f ended, with a data URL or (ok = FALSE)
\* with reader.result = null, which the component treats as the empty string
onloadend(f, ok) ==
    /\ reads[f] > 0
    /\ reads' = [reads EXCEPT ![f] = @ - 1]
    /\ imagePreview' = IF ok THEN DataURL(f) ELSE << >>
    /\ event' = NoEvent
    /\ UNCHANGED << variant, selectedImage, prompt, webhookUrl, responseImage,
                    isLoading, error, inflight, timers, calls >>

\* onChange of the prompt textarea
setPrompt(p) ==
    /\ p /= prompt
    /\ prompt' = p
    /\ event' = NoEvent
    /\ UNCHANGED << variant, selectedImage, imagePreview, webhookUrl,
                    responseImage, isLoading, error, reads, inflight, timers,
                    calls >>

\* onChange of the webhook URL input
setWebhookUrl(u) ==
    /\ u /= webhookUrl
    /\ webhookUrl' = u
    /\ event' = NoEvent
    /\ UNCHANGED << variant, selectedImage, imagePreview, prompt,
                    responseImage, isLoading, error, reads, inflight, timers,
                    calls >>

\* ------------------------------------------- handleSubmit, common steps
\* if (!selectedImage || !prompt || !webhookUrl) { toast.error(...); return; }
RejectSubmit(inv) ==
    /\ calls' = calls + 1
    /\ event' = Event(inv, "rejected", "none", NoResponse, "unread", NoThrown,
                      "error", FALSE, NoRequest)
    /\ UNCHANGED << variant, inputs, responseImage, isLoading, error, inflight,
                    timers >>

\* setIsLoading(true); setError(null); formData; await fetch(...)
\* (part_001 has no error cell: clear = FALSE)
StartRequest(inv, clear) ==
    LET req == Request(webhookUrl, selectedImage, prompt) IN
    /\ isLoading' = TRUE
    /\ error' = IF clear THEN ClearedError(error) ELSE error
    /\ inflight' = inflight \cup { [inv EXCEPT !.request = req] }
    /\ calls' = calls + 1
    /\ event' = Event(inv, "started", "none", NoResponse, "unread", NoThrown,
                      NoToast, FALSE, req)
    /\ UNCHANGED << variant, inputs, responseImage, timers >>

\* the invocation leaves its try block: the writes of its last synchronous
\* stretch, then finally { setIsLoading(false) }
Settle(inv, newError, newResponse, e) ==
    /\ error' = newError
    /\ responseImage' = newResponse
    /\ isLoading' = Finally(isLoading)
    /\ inflight' = inflight \ { inv }
    /\ event' = e
    /\ UNCHANGED << variant, inputs, timers, calls >>

\* catch (error) { setError(`Failed to process image: ...`); toast.error(...) }
\* rejected: what an awaited promise rejected with, NoThrown when the
\* handler itself threw
Catch(inv, thrown, got, resp, body, rejected) ==
    Settle(inv, Str(CatchMessage(thrown)), responseImage,
           Event(inv, "finished", got, resp, body, rejected, "error", FALSE,
                 NoRequest))

\* await response.json(), then if (data && data.image_url) ... else throw
ReadJson(inv, readable) ==
    LET data == ParseJson(inv.resp.body) IN
    IF ~readable
    THEN \E e \in TransportErrors :
             Catch(inv, e, "response", inv.resp, "failed", e)
    ELSE IF ~data.ok
    THEN Catch(inv, ErrorOf(SyntaxErrorMessage(inv.resp.body)), "response",
               inv.resp, "read", NoThrown)
    ELSE IF HasImageUrl(data)
    THEN Settle(inv, error, data.image_url,
                Event(inv, "finished", "response", inv.resp, "read", NoThrown,
                      "success", TRUE, NoRequest))
    ELSE Catch(inv, NoImageUrlError, "response", inv.resp, "read", NoThrown)

\* the invocation moves on to its next await
Await(inv, phase, resp) ==
    /\ inflight' = (inflight \ { inv }) \cup { [inv EXCEPT !.phase = phase, !.resp = resp] }
    /\ event' = NoEvent
    /\ UNCHANGED << variant, inputs, responseImage, isLoading, error, timers,
                    calls >>

\* --------------------------- handleSubmit of src/components/ImageProcessor.tsx
\* the loopback branch: setIsLoading(true); setError(null); setError(message);
\* setTimeout(callback, 1000); finally setIsLoading(false): no await, one step
LocalhostBranch(inv) ==
    /\ Len(timers) < MaxTimers
    /\ error' = Str(LocalhostMessage(webhookUrl))
    /\ timers' = Append(timers, [id |-> inv.id, preview |-> inv.preview])
    /\ isLoading' = Finally(TRUE)
    /\ calls' = calls + 1
    /\ event' = Event(inv, "finished", "none", NoResponse, "unread", NoThrown,
                      NoToast, FALSE, NoRequest)
    /\ UNCHANGED << variant, inputs, responseImage, inflight >>

handleSubmit ==
    /\ variant = "ImageProcessor"
    /\ SubmitEnabled(isLoading)
    /\ calls < MaxSubmits
    /\ LET inv == NewInvocation IN
       IF MissingInput(selectedImage, prompt, webhookUrl) THEN RejectSubmit(inv)
       ELSE IF IsLocalhost(webhookUrl) THEN LocalhostBranch(inv)
       ELSE StartRequest(inv, TRUE)

\* the callback of setTimeout: setResponseImage(imagePreview); toast.info(...)
timerCallback ==
    /\ timers /= << >>
    /\ responseImage' = Head(timers).preview
    /\ timers' = Tail(timers)
    /\ event' = [NoEvent EXCEPT !.id = Head(timers).id, !.kind = "timer",
                                !.toast = "info", !.wrote = TRUE]
    /\ UNCHANGED << variant, inputs, isLoading, error, inflight, calls >>

\* await fetch(...) rejects
fetchRejected(inv, e) ==
    /\ variant = "ImageProcessor"
    /\ inv.phase = "fetch"
    /\ Catch(inv, e, "rejected", NoResponse, "unread", e)

\* await fetch(...) gives a response: on to response.json(), or throw
fetchResolved(inv, resp) ==
    /\ variant = "ImageProcessor"
    /\ inv.phase = "fetch"
    /\ IF ResponseOk(resp.status) THEN Await(inv, "json", resp)
       ELSE Catch(inv, HttpError(resp.status), "response", resp, "unread",
                  NoThrown)

\* await response.json() settles
jsonSettled(inv, readable) ==
    /\ variant = "ImageProcessor"
    /\ inv.phase = "json"
    /\ ReadJson(inv, readable)

\* ------------------------------------------- handleSubmit of unnamed/part_000
handleSubmit_000 ==
    /\ variant = "part_000"
    /\ SubmitEnabled(isLoading)
    /\ calls < MaxSubmits
    /\ LET inv == NewInvocation IN
       IF MissingInput(selectedImage, prompt, webhookUrl) THEN RejectSubmit(inv)
       ELSE StartRequest(inv, TRUE)

fetchRejected_000(inv, e) ==
    /\ variant = "part_000"
    /\ inv.phase = "fetch"
    /\ Catch(inv, e, "rejected", NoResponse, "unread", e)

\* on to response.json() or to response.text()
fetchResolved_000(inv, resp) ==
    /\ variant = "part_000"
    /\ inv.phase = "fetch"
    /\ Await(inv, IF ResponseOk(resp.status) THEN "json" ELSE "text", resp)

jsonSettled_000(inv, readable) ==
    /\ variant = "part_000"
    /\ inv.phase = "json"
    /\ ReadJson(inv, readable)

\* await response.text() settles, then throw new Error(`HTTP error ...`)
textSettled_000(inv, readable) ==
    /\ variant = "part_000"
    /\ inv.phase = "text"
    /\ IF readable
       THEN Catch(inv, HttpErrorWithText(inv.resp.status, inv.resp.body),
                  "response", inv.resp, "read", NoThrown)
       ELSE \E e \in TransportErrors :
                Catch(inv, e, "response", inv.resp, "failed", e)

\* ------------------------------------------- handleSubmit of unnamed/part_001
handleSubmit_001 ==
    /\ variant = "part_001"
    /\ SubmitEnabled(isLoading)
    /\ calls < MaxSubmits
    /\ LET inv == NewInvocation IN
       IF MissingInput(selectedImage, prompt, webhookUrl) THEN RejectSubmit(inv)
       ELSE StartRequest(inv, FALSE)

\* catch (error) { toast.error("Failed to process image") }: no state is set
fetchRejected_001(inv, e) ==
    /\ variant = "part_001"
    /\ inv.phase = "fetch"
    /\ Settle(inv, error, responseImage,
              Event(inv, "finished", "rejected", NoResponse, "unread", e,
                    "error", FALSE, NoRequest))

\* fetch with mode 'no-cors' gives a response that is not looked at:
\* toast.success("Request sent successfully!"); setResponseImage(imagePreview)
fetchResolved_001(inv, resp) ==
    /\ variant = "part_001"
    /\ inv.phase = "fetch"
    /\ Settle(inv, error, inv.preview,
              Event(inv, "finished", "response", resp, "unread", NoThrown,
                    "success", TRUE, NoRequest))

\* ------------------------------------------------------ the state machine
Next ==
    \/ \E f \in FileIds : handleImageChange(f)
    \/ \E f \in FileIds, ok \in BOOLEAN : onloadend(f, ok)
    \/ \E p \in Prompts : setPrompt(p)
    \/ \E u \in Urls : setWebhookUrl(u)
    \/ handleSubmit
    \/ timerCallback
    \/ \E inv \in inflight, e \in TransportErrors : fetchRejected(inv, e)
    \/ \E inv \in inflight, resp \in Responses : fetchResolved(inv, resp)
    \/ \E inv \in inflight, readable \in BOOLEAN : jsonSettled(inv, readable)
    \/ handleSubmit_000
    \/ \E inv \in inflight, e \in TransportErrors : fetchRejected_000(inv, e)
    \/ \E inv \in inflight, resp \in Responses : fetchResolved_000(inv, resp)
    \/ \E inv \in inflight, readable \in BOOLEAN : jsonSettled_000(inv, readable)
    \/ \E inv \in inflight, readable \in BOOLEAN : textSettled_000(inv, readable)
    \/ handleSubmit_001
    \/ \E inv \in inflight, e \in TransportErrors : fetchRejected_001(inv, e)
    \/ \E inv \in inflight, resp \in Responses : fetchResolved_001(inv, resp)

Spec == Init /\ [][Next]_vars

\* ============================================================ properties
\* the last step was an invocation of handleSubmit (its first stretch)
Invoked ==
    \/ event.kind \in { "rejected", "started" }
    \/ event.kind = "finished" /\ event.got = "none"

\* the last step was the return of an invocation that had passed the
\* precondition
Returned == event.kind = "finished"

\* the revisions that keep an error cell
WithErrorCell == variant \in { "ImageProcessor", "part_000" }

\* C1: an invocation of handleSubmit with no image, an empty prompt or an
\* empty webhook URL issues no request, has isLoading false before and after,
\* and leaves error and responseImage as they were.
C1_MissingInputHasNoEffect ==
    (Invoked /\ (selectedImage = NoFile \/ prompt = << >> \/ webhookUrl = << >>))
        => /\ event.request = NoRequest
           /\ inflight = {}
           /\ ~event.loadingBefore
           /\ ~isLoading
           /\ error = event.errorBefore
           /\ responseImage = event.responseBefore

\* C1 witness: an invocation with an image and a prompt but an empty URL,
\* made while an error was shown, and the error is still there.
C1_Witness ==
    /\ event.kind = "rejected"
    /\ selectedImage /= NoFile /\ prompt /= << >> /\ webhookUrl = << >>
    /\ error /= Null
    /\ ~isLoading

\* C2: when an invocation that passed the precondition has returned,
\* whichever way it ended, isLoading is false.
C2_LoadingResetOnEveryExit == Returned => ~isLoading

\* C2 witness: an invocation that ended because reading the body of the
\* response threw.
C2_Witness ==
    /\ Returned
    /\ event.got = "response" /\ event.body = "failed"
    /\ event.loadingBefore /\ ~isLoading

\* the last step was the return of an invocation whose fetch gave a response
\* with a success status, and the body was read
ReturnedWithOkBody ==
    /\ Returned
    /\ event.got = "response"
    /\ ResponseOk(event.resp.status)
    /\ event.body = "read"

\* the last step was the return of an invocation whose fetch gave a response
\* with a failure status
ReturnedWithFailureStatus ==
    /\ Returned
    /\ event.got = "response"
    /\ ~ResponseOk(event.resp.status)

\* C3 as stated: after a 2xx response whose JSON body has an image_url,
\* responseImage is that image_url and error is null.
C3_Original ==
    (WithErrorCell /\ ReturnedWithOkBody /\ ParseJson(event.resp.body).hasUrl)
        => /\ responseImage = ParseJson(event.resp.body).image_url
           /\ error = Null

\* C3 amended: after a 2xx response whose JSON body has a non-empty
\* image_url, responseImage is that image_url and error is null, whatever
\* error or result was shown before.
C3_SuccessShowsReturnedUrl ==
    (/\ WithErrorCell
     /\ ReturnedWithOkBody
     /\ ParseJson(event.resp.body).hasUrl
     /\ ParseJson(event.resp.body).image_url /= << >>)
        => /\ responseImage = ParseJson(event.resp.body).image_url
           /\ error = Null

\* C3 witness: a submission started while an error was shown ends with the
\* returned URL shown and no error.
C3_Witness ==
    /\ WithErrorCell
    /\ ReturnedWithOkBody
    /\ event.hadError
    /\ event.resp.body = BodyWithUrl
    /\ responseImage = ParseJson(BodyWithUrl).image_url
    /\ responseImage /= event.responseBefore
    /\ error = Null

\* C4 as stated: after a response with a failure status s, error is a message
\* containing the decimal digits of s, and responseImage was not written.
C4_StatusInError ==
    (WithErrorCell /\ ReturnedWithFailureStatus)
        => /\ error /= Null
           /\ Includes(error[1], ToDecimal(event.resp.status))
           /\ ~event.wrote
           /\ responseImage = event.responseBefore

\* C5 as stated: in ImageProcessor.tsx, after a response with a failure
\* status whose body text can be read, the error message contains that text.
C5_BodyInError ==
    (/\ variant = "ImageProcessor"
     /\ ReturnedWithFailureStatus
     /\ event.body /= "failed")
        => /\ error /= Null
           /\ Includes(error[1], event.resp.body)

\* C6 as stated: after a 2xx response whose body does not parse or has no
\* image_url, error says that the response did not contain an image URL, no
\* success notification is shown and responseImage is empty.
C6_MissingUrlIsFailure ==
    (/\ WithErrorCell
     /\ ReturnedWithOkBody
     /\ (~ParseJson(event.resp.body).ok \/ ~ParseJson(event.resp.body).hasUrl))
        => /\ error /= Null
           /\ Includes(error[1], NoImageUrlText)
           /\ event.toast /= "success"
           /\ responseImage = << >>

\* C7 as stated: in every revision, after fetch rejected, error is a message
\* containing the text of the failure, an error notification was shown and
\* responseImage was not written.
C7_TransportFailureRecorded ==
    (Returned /\ event.got = "rejected")
        => /\ error /= Null
           /\ Includes(error[1], event.thrown.message)
           /\ event.toast = "error"
           /\ ~event.wrote

\* C8 as stated: once a submission has been attempted, an error and a result
\* are never shown together.
C8_ErrorAndResultExclusive ==
    calls > 0 => ~(error /= Null /\ responseImage /= << >>)

\* C9 as stated: in ImageProcessor.tsx every invocation that passes the
\* precondition issues one POST request to the webhook URL, loopback URLs
\* included.
C9_OneRequestPerSubmission ==
    (/\ variant = "ImageProcessor"
     /\ Invoked
     /\ ~(selectedImage = NoFile \/ prompt = << >> \/ webhookUrl = << >>))
        => /\ event.request.method = "POST"
           /\ event.request.url = webhookUrl
           /\ \E inv \in inflight : inv.id = event.id /\ inv.request = event.request

\* C10: while the request of a submission is outstanding, isLoading is true
\* and error is null, also when the submission started with an error or a
\* result shown.
C10_LoadingAndNoErrorWhileOutstanding ==
    (WithErrorCell /\ inflight /= {}) => (isLoading /\ error = Null)

\* C10 witness: a request is outstanding for a submission that started while
\* an error and an earlier result were shown.
C10_Witness ==
    /\ WithErrorCell
    /\ \E inv \in inflight : inv.phase = "fetch" /\ inv.hadError /\ inv.hadResult
    /\ isLoading
    /\ error = Null

\* C11: isLoading is true exactly when a submission that passed the
\* precondition has not yet returned.
C11_LoadingIffOutstanding == isLoading <=> inflight /= {}

\* C11 witness: a submission is suspended at response.json(), after another
\* one has returned, and isLoading is true.
C11_Witness ==
    /\ isLoading
    /\ \E inv \in inflight : inv.phase = "json" /\ inv.id = 2

\* C12 as stated: with submit events only while the button is enabled, there
\* are never two outstanding requests, and no callback of an earlier
\* submission (a continuation of handleSubmit or its setTimeout callback)
\* writes state while a later submission is outstanding.
C12_OneSubmissionInFlight ==
    /\ Cardinality(inflight) <= 1
    /\ event.kind \in { "finished", "timer" }
           => \A inv \in inflight : inv.id <= event.id

\* C13 as stated: while the read of the selected file has not completed,
\* imagePreview is empty, for the first file selected and for every later one.
\* (A file selected twice has two reads; the data URL of the selected file
\* itself is let through, so that only the preview of another file counts.)
C13_PreviewEmptyWhileReading ==
    (selectedImage /= NoFile /\ reads[selectedImage] > 0)
        => imagePreview \in { << >>, DataURL(selectedImage) }

\* C14 as stated: no submission of a file ends with a result while the
\* preview of that file is still empty.
C14_PreviewBeforeResult ==
    (/\ Returned
     /\ event.toast = "success"
     /\ event.image = selectedImage)
        => imagePreview /= << >>

\* C15: while isLoading is true no submission starts, and the only step that
\* makes it false is the settling of the outstanding request (fetch rejected,
\* or a response handled to the end); nothing else, no timeout and no
\* cancellation, ends the wait, so a request that never settles leaves
\* isLoading true.
C15_LoadingEndsOnlyWithRequest ==
    [][isLoading =>
          /\ calls' = calls
          /\ ~isLoading' =>
                 /\ event'.kind = "finished"
                 /\ event'.got \in { "rejected", "response" }
                 /\ \E inv \in inflight : inv.id = event'.id /\ inv \notin inflight']_vars

C15_Witness ==
    /\ Returned
    /\ event.loadingBefore
    /\ ~isLoading
    /\ event.got = "response"
    /\ event.id = 2

\* C16 as stated: the preview is a function of the selected file: when no
\* read is pending, imagePreview is the data URL of the selected file, also
\* after two selections whose reads end in the opposite order.
\* (A read that ends without a result leaves the preview empty; the empty
\* preview is let through, so that only the preview of another file counts.)
C16_PreviewOfSelectedFile ==
    (selectedImage /= NoFile /\ PendingReads = 0)
        => imagePreview \in { << >>, DataURL(selectedImage) }

\* C17 as stated: in ImageProcessor.tsx responseImage is written only with
\* the image_url of a successful response: once it holds the URL of a
\* success it changes only in the step of another success, whatever else
\* runs in between.
C17_ResultOnlyFromSuccess ==
    [][(/\ variant = "ImageProcessor"
        /\ responseImage = ParseJson(BodyWithUrl).image_url
        /\ responseImage' /= responseImage)
           => (event'.kind = "finished" /\ event'.toast = "success")]_vars

\* C18: every step of handleSubmit, on every path (input missing, request
\* sent, error caught, success), leaves selectedImage, imagePreview, prompt
\* and webhookUrl as they were, and the request a submission sends carries
\* the selected file and the prompt of that moment: after an error the same
\* inputs are there and submitting again sends the same image and prompt.
C18_SubmitKeepsInputs ==
    [][(inflight' /= inflight \/ calls' /= calls) =>
          /\ selectedImage' = selectedImage
          /\ imagePreview' = imagePreview
          /\ prompt' = prompt
          /\ webhookUrl' = webhookUrl
          /\ event'.kind = "started" =>
                 /\ event'.request.image = selectedImage
                 /\ event'.request.prompt = prompt
                 /\ event'.request.url = webhookUrl
                 /\ \E inv \in inflight' : inv.id = event'.id /\ inv.request = event'.request]_vars

C18_Witness ==
    /\ event.kind = "started"
    /\ event.hadError
    /\ event.errorBefore /= Null
    /\ event.request.image = selectedImage
    /\ event.request.prompt = prompt
    /\ event.request.prompt /= << >>
====
